---- MODULE Spec2Model ----
(***************************************************************************)
(* Provisioning flow of the Raspberry Pi screen setup program              *)
(* (src/main.py): connectivity check, Access Point mode, credential        *)
(* hand-off through wifi_credentials.tmp, DNS reset, re-check, activation. *)
(*                                                                         *)
(* The flow is one sequential control flow (main -> create_ui ->           *)
(* webview_ready); pc is the position of the innermost running             *)
(* webview_ready, frames counts the outer webview_ready calls suspended in *)
(* the recursive main() of line 248.  Every subprocess call draws its      *)
(* outcome from the environment: "ok" (exit 0), "fail" (non-zero exit,     *)
(* CalledProcessError) or "nolaunch" (the executable cannot be started,    *)
(* FileNotFoundError).                                                     *)
(*                                                                         *)
(* main.py:48 calls generate_wifi_qr("RaspberryAP", "raspberry",           *)
(* "wifi_qr.png"); with server/qr_code.py the third argument is `security` *)
(* and the call raises ValidationError, so lines 50-91 of start_ap_mode    *)
(* (QR display, client wait loop) are never executed and have no action.   *)
(*                                                                         *)
(* main.py imports connect_wifi and reset_dns from scripts.connect_wifi,   *)
(* which defines neither; the functions of that name and signature are     *)
(* NetworkManager.connect_wifi and NetworkManager.reset_dns                *)
(* (src/ap/network_manager.py) and are modelled from there.  Likewise      *)
(* send_activation_request is taken from server/activation_manager.py: it  *)
(* returns (success, message) and catches its request errors.  The         *)
(* UIManager methods main.py calls (create_ui, update_ui, display_qr_code, *)
(* close_ui) are not in the source: create_ui runs the callback and the    *)
(* others only display.                                                    *)
(***************************************************************************)
EXTENDS Naturals, Integers, Sequences, FiniteSets, TLC

\* ---------------------------------------------------------------- bounds
MaxRestarts == 2     \* nested main() calls explored
MaxLaunches == 2     \* program runs (a run after the first is a relaunch)
MaxDeposits == 2     \* credential submissions explored
MaxSubmits == 2      \* submissions the /api/connect route accepts

\* ------------------------------------------------------ program constants
max_attempts == 3    \* main.py:106

CmdOutcomes == {"ok", "fail", "nolaunch"}
IwOutcomes  == {"client", "empty", "fail", "nolaunch"}

\* only the primary nameserver is configured
GooglePrimaryOnly == {"8.8.8.8"}

Google == {"8.8.8.8", "8.8.4.4"}
\* contents of /etc/resolv.conf: the set of nameservers in it; Absent stands
\* for a file that does not exist
Absent == {"<absent>"}
ResolvContents == {Absent, {"1.1.1.1"}, {"8.8.8.8"}, Google}

Terminal == {"done", "aborted", "interrupted"}

VARIABLES
  pc,          \* position of the innermost webview_ready
  frames,      \* outer webview_ready calls suspended at main.py:248
  launches,    \* program runs so far
  apState,     \* "up" / "down": the Access Point radio
  flask,       \* "none" / "running" / "stopped": the Flask child process
  credsFile,   \* wifi_credentials.tmp: 0 = absent, n > 0 = the n-th deposit,
               \* -n = the n-th deposit created but not yet written in full
  nextId,      \* id of the next deposit
  creds,       \* the pair read at main.py:232-234 (0 = none)
  consumed,    \* ids of the deposits read so far (history)
  resolv,      \* /etc/resolv.conf
  backup,      \* /etc/resolv.conf.backup
  attempt,     \* loop variable of main.py:107
  calls,       \* collaborator calls of the current webview_ready (history)
  error,       \* exception that reached the __main__ handler, or "none"
  accepted,    \* submissions the /api/connect route answered with success
  dpc,         \* position inside one NetworkManager.reset_dns call
  tmp,         \* /tmp/resolv.conf
  dret,        \* return value of the last reset_dns call ("none" before)
  rprev,       \* /etc/resolv.conf as it was when that call began
  orig,        \* /etc/resolv.conf as the program found it (history)
  spc,         \* position inside scripts/connect_wifi.py main()
  net,         \* wpa_supplicant.conf, dhcpcd.conf and their .backup files
  net0,        \* net as it was before the script ran (history)
  sarg,        \* lengths of --ssid and --password
  sres,        \* first exception raised inside the script, or "none"
  apc,         \* position inside scripts/send_activation.py main()
  retry,       \* retry_count (args.retry)
  att,         \* loop variable `attempt` of activate_device
  sent,        \* send_metrics calls made (history)
  slept,       \* the time.sleep arguments, in order (history)
  aok,         \* a send_metrics call returned without raising (history)
  current_state, \* UIManager.state.current_state
  last_update, \* UIManager.state.last_update (time.time() at the update)
  now,         \* the clock, in seconds
  tasks,       \* pending _schedule_transition tasks
  gen,         \* update_state calls so far (history)
  ext,         \* update_state calls made from outside the timers (history)
  fired,       \* the last timer that made a transition (history)
  epc,         \* position inside handle_error and its recovery action
  depth,       \* handle_error calls on the stack
  retry_count, \* UIManager.retry_count
  helps,       \* show_help_qr calls since the outermost handle_error began
  etype,       \* error type being handled
  mem,         \* cache_index of each QRCodeCache instance
  disk,        \* qr_cache/index.json as an index (no file reads as empty)
  files,       \* keys whose <key>.png is in the cache directory
  cnow,        \* the clock, in hours
  cres,        \* the last cache call and what it returned (history)
  putAt        \* when each key was last put with an existing file (history)

flowVars == <<pc, frames, launches, apState, flask, credsFile, nextId, creds,
              consumed, resolv, backup, attempt, calls, error>>
dnsVars == <<dpc, tmp, dret, rprev>>
scriptVars == <<spc, net, net0, sarg, sres>>
actVars == <<apc, retry, att, sent, slept, aok>>
uiVars == <<current_state, last_update, now, tasks, gen, ext, fired>>
errVars == <<epc, depth, retry_count, helps, etype>>
cacheVars == <<mem, disk, files, cnow, cres, putAt>>
auxVars == <<accepted, dnsVars, orig, scriptVars, actVars, uiVars, errVars,
             cacheVars>>
vars == <<flowVars, auxVars>>

\* ----------------------------------------------------------- pure helpers

\* SetupManager.check_internet_connection: only CalledProcessError is caught
CheckInternet(o) ==
  CASE o = "ok"       -> "true"
    [] o = "fail"     -> "false"
    [] o = "nolaunch" -> "raise"

\* generate_wifi_qr(ssid, password, security, ...): validation at lines 236-238
Upper(s) ==
  CASE s = "WPA"         -> "WPA"
    [] s = "WEP"         -> "WEP"
    [] s = "nopass"      -> "NOPASS"
    [] s = "wifi_qr.png" -> "WIFI_QR.PNG"

GenerateWifiQr(security) ==
  IF Upper(security) \notin {"WPA", "WEP", "nopass"} THEN "raise" ELSE "path"

\* verify_dns_config: both nameservers present; unreadable file -> False
VerifyDns(r) == r # Absent /\ "8.8.8.8" \in r /\ "8.8.4.4" \in r

\* NetworkManager.reset_dns: cp to backup, write temp file, mv into place;
\* CalledProcessError and IOError (FileNotFoundError included) give False
ResetDns(r, b, cp, wr, mv) ==
  LET cpOk == cp = "ok" /\ r # Absent IN
  IF ~cpOk THEN [ok |-> FALSE, resolv |-> r, backup |-> b]
  ELSE IF wr # "ok" THEN [ok |-> FALSE, resolv |-> r, backup |-> r]
  ELSE IF mv # "ok" THEN [ok |-> FALSE, resolv |-> r, backup |-> r]
  ELSE [ok |-> TRUE, resolv |-> Google, backup |-> r]

\* NetworkManager.connect_wifi: only CalledProcessError is caught
ConnectWifi(cfg, wpa, dhcp, ping) ==
  IF cfg # "ok" THEN "false"
  ELSE IF wpa = "nolaunch" THEN "raise"
  ELSE IF wpa = "fail" THEN "false"
  ELSE IF dhcp = "nolaunch" THEN "raise"
  ELSE IF dhcp = "fail" THEN "false"
  ELSE IF ping = "nolaunch" THEN "raise"
  ELSE IF ping = "ok" THEN "true" ELSE "false"

\* the connect_wifi script is not running and its files are not looked at
ScriptIdle ==
  /\ spc = "idle"
  /\ net = [wpa |-> "absent", wpaBak |-> "absent",
            dhcp |-> "absent", dhcpBak |-> "absent"]
  /\ net0 = net
  /\ sarg = [ssid |-> 0, pw |-> 0]
  /\ sres = "none"

\* the send_activation script is not running
ActIdle ==
  /\ apc = "idle" /\ retry = 0 /\ att = 0 /\ sent = 0
  /\ slept = <<>> /\ aok = FALSE

\* server/qr_code.py:35-60  the two QRCodeCache instances (the module's
\* qr_cache and UIManager.qr_cache) built on an empty directory
Instances == {1, 2}
EmptyIndex == [k \in {} |-> 0]
NoCall == [op |-> "none", inst |-> 0, key |-> "none", ret |-> "None",
           had |-> FALSE, age |-> 0, file |-> FALSE, made |-> 0,
           putAge |-> -1]

CacheIdle ==
  /\ mem = [i \in Instances |-> EmptyIndex]
  /\ disk = EmptyIndex
  /\ files = {}
  /\ cnow = 0
  /\ cres = NoCall
  /\ putAt = EmptyIndex

NoTimer == [gen |-> 0, cur |-> 0, age |-> 0, timeout |-> 0]

\* ui_manager.py:27-34, 98-107  a UIManager as constructed: state INIT, no
\* timer scheduled yet
UiIdle ==
  /\ current_state = "INIT" /\ last_update = 0 /\ now = 0 /\ tasks = {}
  /\ gen = 0 /\ ext = 0 /\ fired = NoTimer

\* ui_manager.py:106  no error is being handled
ErrIdle ==
  /\ epc = "idle" /\ depth = 0 /\ retry_count = 0 /\ helps = 0
  /\ etype = "none"

\* ------------------------------------------------------------------- Init
Init ==
  /\ pc = "check1"
  /\ frames = 0
  /\ launches = 1
  /\ apState = "down"
  /\ flask = "none"
  /\ credsFile = 0
  /\ nextId = 1
  /\ creds = 0
  /\ consumed = {}
  /\ resolv \in ResolvContents
  /\ backup = Absent
  /\ attempt = 0
  /\ calls = <<>>
  /\ error = "none"
  /\ accepted = 0
  /\ dpc = "idle"
  /\ tmp = Absent
  /\ dret = "none"
  /\ rprev = Absent
  /\ orig = resolv
  /\ ScriptIdle
  /\ ActIdle
  /\ UiIdle
  /\ ErrIdle
  /\ CacheIdle

\* an uncaught exception leaves webview_ready and every enclosing main()
\* and is printed by the handler of main.py:259-260
Abort(kind) ==
  /\ pc' = "aborted"
  /\ frames' = 0
  /\ error' = kind

Log(e) == calls' = Append(calls, e)

\* ----------------------------------------------------------------- actions

\* the branch of main.py:208 lost: Access Point mode whatever the check says
AfterCheck1AlwaysAp(r) == "start_ap"

\* main.py:208-215  online -> activation, offline -> Access Point mode
AfterCheck1(r) == IF r = "true" THEN "activate1" ELSE "start_ap"

\* main.py:208  if setup_manager.check_internet_connection():
Check1 ==
  /\ pc = "check1"
  /\ \E o \in CmdOutcomes :
       LET r == CheckInternet(o) IN
       IF r = "raise"
       THEN /\ Abort("FileNotFoundError")
            /\ UNCHANGED calls
       ELSE /\ pc' = AfterCheck1(r)
            /\ Log(IF r = "true" THEN "check:online" ELSE "check:offline")
            /\ UNCHANGED <<frames, error>>
  /\ UNCHANGED <<launches, apState, flask, credsFile, nextId, creds, consumed,
                 resolv, backup, attempt>>
  /\ UNCHANGED auxVars

\* a failed activation starts the flow over
AfterActivationRetry(success) == IF success THEN "done" ELSE "restart"

\* main.py:210-212, 242-245  webview_ready returns after activate_device(),
\* whatever it returned
AfterActivation(success) == "done"

\* main.py:210-212  activate_device() on the already-online branch;
\* send_activation_request returns (success, message) and does not raise
Activate1 ==
  /\ pc = "activate1"
  /\ \E success \in BOOLEAN :
       /\ Log(IF success THEN "activate:ok" ELSE "activate:fail")
       /\ pc' = AfterActivation(success)
  /\ UNCHANGED <<frames, launches, apState, flask, credsFile, nextId, creds,
                 consumed, resolv, backup, attempt, error>>
  /\ UNCHANGED auxVars

\* main.py:215 -> start_ap_mode, lines 40-45 and 93-94: a failing setup
\* script is logged and start_ap_mode returns normally
StartAp ==
  /\ pc = "start_ap"
  /\ \E o \in CmdOutcomes :
       CASE o = "ok" ->
              /\ apState' = "up"
              /\ pc' = "gen_wifi_qr"
              /\ Log("start_ap:ok")
              /\ UNCHANGED <<frames, error>>
         [] o = "fail" ->
              /\ pc' = "station_dump"
              /\ Log("start_ap:fail")
              /\ UNCHANGED <<apState, frames, error>>
         [] o = "nolaunch" ->
              /\ Abort("FileNotFoundError")
              /\ UNCHANGED <<apState, calls>>
  /\ UNCHANGED <<launches, flask, credsFile, nextId, creds, consumed, resolv,
                 backup, attempt>>
  /\ UNCHANGED auxVars

\* main.py:48  generate_wifi_qr("RaspberryAP", "raspberry", "wifi_qr.png"):
\* ValidationError is not a CalledProcessError and leaves start_ap_mode
GenWifiQr ==
  /\ pc = "gen_wifi_qr"
  /\ IF GenerateWifiQr("wifi_qr.png") = "raise"
     THEN Abort("ValidationError")
     ELSE /\ pc' = "wait_client"
          /\ UNCHANGED <<frames, error>>
  /\ Log("qr")
  /\ UNCHANGED <<launches, apState, flask, credsFile, nextId, creds, consumed,
                 resolv, backup, attempt>>
  /\ UNCHANGED auxVars

\* main.py:217-227: the station dump is not guarded; with a client present
\* generate_wifi_qr(redirect_url, "", output_file=...) raises TypeError
StationDump ==
  /\ pc = "station_dump"
  /\ \E o \in IwOutcomes :
       CASE o = "empty" ->
              /\ pc' = "start_flask"
              /\ Log("iw")
              /\ UNCHANGED <<frames, error>>
         [] o = "client" ->
              /\ Abort("TypeError")
              /\ Log("iw")
         [] o = "fail" ->
              /\ Abort("CalledProcessError")
              /\ Log("iw")
         [] o = "nolaunch" ->
              /\ Abort("FileNotFoundError")
              /\ UNCHANGED calls
  /\ UNCHANGED <<launches, apState, flask, credsFile, nextId, creds, consumed,
                 resolv, backup, attempt>>
  /\ UNCHANGED auxVars

\* main.py:169-170  flask_process.start()
StartFlask ==
  /\ pc = "start_flask"
  /\ flask' = "running"
  /\ pc' = "wait_creds"
  /\ Log("flask_start")
  /\ UNCHANGED <<frames, launches, apState, credsFile, nextId, creds, consumed,
                 resolv, backup, attempt, error>>
  /\ UNCHANGED auxVars

\* the running web service deposits a submitted pair into wifi_credentials.tmp
Deposit ==
  /\ flask = "running"
  /\ pc \notin Terminal
  /\ nextId <= MaxDeposits
  /\ credsFile' = nextId
  /\ nextId' = nextId + 1
  /\ UNCHANGED <<pc, frames, launches, apState, flask, creds, consumed, resolv,
                 backup, attempt, calls, error>>
  /\ UNCHANGED auxVars

\* the hand-off file is not required to appear atomically: the web service
\* creates wifi_credentials.tmp and then writes the two lines into it
DepositOpen ==
  /\ flask = "running"
  /\ pc \notin Terminal
  /\ nextId <= MaxDeposits
  /\ credsFile' = -nextId
  /\ nextId' = nextId + 1
  /\ UNCHANGED <<pc, frames, launches, apState, flask, creds, consumed, resolv,
                 backup, attempt, calls, error>>
  /\ UNCHANGED auxVars

\* the web service, still alive, completes the write it began
DepositFinish ==
  /\ flask = "running"
  /\ pc \notin Terminal
  /\ credsFile < 0
  /\ credsFile' = -credsFile
  /\ UNCHANGED <<pc, frames, launches, apState, flask, nextId, creds, consumed,
                 resolv, backup, attempt, calls, error>>
  /\ UNCHANGED auxVars

\* server/utils.py  validate_ssid: non-empty, at most 32, allowed characters
ValidateSsid(len, charsOk) == len >= 1 /\ len <= 32 /\ charsOk

\* server/utils.py  validate_password: empty, or 8..63 allowed characters
ValidatePassword(len, charsOk) ==
  len = 0 \/ (len >= 8 /\ len <= 63 /\ charsOk)

\* server/app.py:182-227  POST /api/connect: validate, generate a QR code,
\* answer {'success': True, 'qr_code': ...}; no line of the route (or of the
\* rest of the server) writes wifi_credentials.tmp
ApiConnect ==
  /\ flask = "running"
  /\ pc \notin Terminal
  /\ accepted < MaxSubmits
  /\ \E ssidLen \in {0, 1, 32, 33}, pwLen \in {0, 7, 8, 63, 64},
        charsOk \in BOOLEAN, colorOk \in BOOLEAN, qrOk \in BOOLEAN :
       IF ValidateSsid(ssidLen, charsOk) /\ ValidatePassword(pwLen, charsOk)
          /\ colorOk /\ qrOk
       THEN accepted' = accepted + 1
       ELSE UNCHANGED accepted
  /\ UNCHANGED <<flowVars, dnsVars, orig, scriptVars, actVars, uiVars,
                 errVars, cacheVars>>

\* the wait gives up without a file (a timeout added to the loop)
CredsPresentOrTimeout(f) == TRUE

\* main.py:174  os.path.exists(creds_file)
CredsPresent(f) == f # 0

\* main.py:173-175  while not os.path.exists(creds_file): time.sleep(2)
WaitCreds ==
  /\ pc = "wait_creds"
  /\ CredsPresent(credsFile)
  /\ pc' = "stop_flask"
  /\ Log("wait_done")
  /\ UNCHANGED <<frames, launches, apState, flask, credsFile, nextId, creds,
                 consumed, resolv, backup, attempt, error>>
  /\ UNCHANGED auxVars

\* the credentials are read and applied without stop_ap_mode() first
AfterHandleCredentialsNoStop == "read_creds"

\* main.py:228-229: handle_user_credentials returned True
AfterHandleCredentials == "stop_ap"

\* main.py:182-184  flask_process.terminate(); join(); return True
StopFlask ==
  /\ pc = "stop_flask"
  /\ flask' = "stopped"
  /\ pc' = AfterHandleCredentials
  /\ Log("flask_stop")
  /\ UNCHANGED <<frames, launches, apState, credsFile, nextId, creds, consumed,
                 resolv, backup, attempt, error>>
  /\ UNCHANGED auxVars

\* main.py:100-103, 119-120: a failing stop script skips the DNS loop and
\* the verification
StopAp ==
  /\ pc = "stop_ap"
  /\ \E o \in CmdOutcomes :
       CASE o = "ok" ->
              /\ apState' = "down"
              /\ pc' = "dns_loop"
              /\ attempt' = 0
              /\ Log("stop_ap:ok")
              /\ UNCHANGED <<frames, error>>
         [] o = "fail" ->
              /\ pc' = "read_creds"
              /\ Log("stop_ap:fail")
              /\ UNCHANGED <<apState, attempt, frames, error>>
         [] o = "nolaunch" ->
              /\ Abort("FileNotFoundError")
              /\ UNCHANGED <<apState, attempt, calls>>
  /\ UNCHANGED <<launches, flask, credsFile, nextId, creds, consumed, resolv,
                 backup>>
  /\ UNCHANGED auxVars

\* the `not` of main.py:116 dropped
WarnNeededInverted(verified) == verified

\* main.py:116-117  the warning is logged when verify_dns_config() is False
WarnNeeded(verified) == ~verified

\* main.py:107-113  one iteration of the DNS reset loop: a successful reset
\* breaks, a failed one is logged and followed by time.sleep(2)
DnsLoop ==
  /\ pc = "dns_loop"
  /\ attempt \in 0..(max_attempts - 1)
  /\ \E cp \in CmdOutcomes, wr \in {"ok", "fail"}, mv \in CmdOutcomes :
       LET r == ResetDns(resolv, backup, cp, wr, mv) IN
       /\ resolv' = r.resolv
       /\ backup' = r.backup
       /\ IF r.ok
          THEN /\ calls' = Append(calls, "reset_dns:ok")
               /\ pc' = "dns_verify"
               /\ UNCHANGED attempt
          ELSE /\ calls' = calls \o <<"reset_dns:fail", "sleep">>
               /\ attempt' = attempt + 1
               /\ pc' = (IF attempt + 1 < max_attempts THEN "dns_loop"
                                                       ELSE "dns_verify")
  /\ UNCHANGED <<frames, launches, apState, flask, credsFile, nextId, creds,
                 consumed, error>>
  /\ UNCHANGED auxVars

\* main.py:115-117  final verification, warning only
DnsVerify ==
  /\ pc = "dns_verify"
  /\ LET v == VerifyDns(resolv) IN
       calls' = calls \o <<IF v THEN "verify:true" ELSE "verify:false">>
                      \o (IF WarnNeeded(v) THEN <<"warn">> ELSE <<>>)
  /\ pc' = "read_creds"
  /\ UNCHANGED <<frames, launches, apState, flask, credsFile, nextId, creds,
                 consumed, resolv, backup, attempt, error>>
  /\ UNCHANGED auxVars

\* main.py:231-234  read ssid and password from wifi_credentials.tmp
ReadCreds ==
  /\ pc = "read_creds"
  /\ IF credsFile = 0
     THEN /\ Abort("FileNotFoundError")
          /\ UNCHANGED <<creds, consumed, calls>>
     ELSE /\ creds' = credsFile
          /\ consumed' = consumed \cup {credsFile}
          /\ pc' = "connect_wifi"
          /\ Log("read")
          /\ UNCHANGED <<frames, error>>
  /\ UNCHANGED <<launches, apState, flask, credsFile, nextId, resolv, backup,
                 attempt>>
  /\ UNCHANGED auxVars

\* main.py:235  connect_wifi(ssid, password): the result is not looked at
ConnectWifiStep ==
  /\ pc = "connect_wifi"
  /\ \E cfg \in {"ok", "fail"}, wpa \in CmdOutcomes, dhcp \in CmdOutcomes,
        ping \in CmdOutcomes :
       LET r == ConnectWifi(cfg, wpa, dhcp, ping) IN
       IF r = "raise"
       THEN /\ Abort("FileNotFoundError")
            /\ Log("connect_wifi:raise")
       ELSE /\ pc' = "reset_dns"
            /\ Log(IF r = "true" THEN "connect_wifi:true"
                                 ELSE "connect_wifi:false")
            /\ UNCHANGED <<frames, error>>
  /\ UNCHANGED <<launches, apState, flask, credsFile, nextId, creds, consumed,
                 resolv, backup, attempt>>
  /\ UNCHANGED auxVars

\* main.py:236  reset_dns(): one more reset, result not looked at
ResetDnsStep ==
  /\ pc = "reset_dns"
  /\ \E cp \in CmdOutcomes, wr \in {"ok", "fail"}, mv \in CmdOutcomes :
       LET r == ResetDns(resolv, backup, cp, wr, mv) IN
       /\ resolv' = r.resolv
       /\ backup' = r.backup
       /\ Log(IF r.ok THEN "reset_dns:ok" ELSE "reset_dns:fail")
  /\ pc' = "remove_creds"
  /\ UNCHANGED <<frames, launches, apState, flask, credsFile, nextId, creds,
                 consumed, attempt, error>>
  /\ UNCHANGED auxVars

\* main.py:238-239  os.remove(creds_file)
RemoveCreds ==
  /\ pc = "remove_creds"
  /\ credsFile' = 0
  /\ pc' = "check2"
  /\ Log("remove")
  /\ UNCHANGED <<frames, launches, apState, flask, nextId, creds, consumed,
                 resolv, backup, attempt, error>>
  /\ UNCHANGED auxVars

\* main.py:240  second connectivity check
Check2 ==
  /\ pc = "check2"
  /\ \E o \in CmdOutcomes :
       LET r == CheckInternet(o) IN
       IF r = "raise"
       THEN /\ Abort("FileNotFoundError")
            /\ UNCHANGED calls
       ELSE /\ pc' = (IF r = "true" THEN "activate2" ELSE "restart")
            /\ Log(IF r = "true" THEN "check:online" ELSE "check:offline")
            /\ UNCHANGED <<frames, error>>
  /\ UNCHANGED <<launches, apState, flask, credsFile, nextId, creds, consumed,
                 resolv, backup, attempt>>
  /\ UNCHANGED auxVars

\* main.py:242-245  activation after provisioning; both results are logged
Activate2 ==
  /\ pc = "activate2"
  /\ \E success \in BOOLEAN :
       /\ Log(IF success THEN "activate:ok" ELSE "activate:fail")
       /\ pc' = AfterActivation(success)
  /\ UNCHANGED <<frames, launches, apState, flask, credsFile, nextId, creds,
                 consumed, resolv, backup, attempt, error>>
  /\ UNCHANGED auxVars

\* the restart goes to Access Point mode without a new connectivity check
RestartTargetAp == "start_ap"

\* main.py:248 -> 202-208  the new main() begins with the connectivity check
RestartTarget == "check1"

\* main.py:247-248  "Restarting process...": main() is called from inside
\* webview_ready; it builds a new SetupManager and runs a new webview_ready
Restart ==
  /\ pc = "restart"
  /\ frames < MaxRestarts
  /\ frames' = frames + 1
  /\ pc' = RestartTarget
  /\ creds' = 0
  /\ attempt' = 0
  /\ calls' = <<>>
  /\ UNCHANGED <<launches, apState, flask, credsFile, nextId, consumed, resolv,
                 backup, error>>
  /\ UNCHANGED auxVars

\* the nested main() returns into the webview_ready that called it (line
\* 248 is its last statement)
Unwind ==
  /\ pc = "done"
  /\ frames > 0
  /\ frames' = frames - 1
  /\ UNCHANGED <<pc, launches, apState, flask, credsFile, nextId, creds,
                 consumed, resolv, backup, attempt, calls, error>>
  /\ UNCHANGED auxVars

\* main.py:255-258  KeyboardInterrupt: a message is printed, nothing else
Interrupt ==
  /\ pc \notin Terminal
  /\ pc' = "interrupted"
  /\ frames' = 0
  /\ error' = "KeyboardInterrupt"
  /\ UNCHANGED <<launches, apState, flask, credsFile, nextId, creds, consumed,
                 resolv, backup, attempt, calls>>
  /\ UNCHANGED auxVars

\* the program is started again; files and the radio keep their state
Relaunch ==
  /\ pc \in Terminal
  /\ frames = 0
  /\ launches < MaxLaunches
  /\ launches' = launches + 1
  /\ pc' = "check1"
  /\ flask' = "none"
  /\ creds' = 0
  /\ attempt' = 0
  /\ calls' = <<>>
  /\ error' = "none"
  /\ UNCHANGED <<frames, apState, credsFile, nextId, consumed, resolv, backup>>
  /\ UNCHANGED auxVars

Next ==
  \/ Check1 \/ Activate1 \/ StartAp \/ GenWifiQr \/ StationDump
  \/ StartFlask \/ Deposit \/ WaitCreds \/ StopFlask \/ StopAp
  \/ DnsLoop \/ DnsVerify \/ ReadCreds \/ ConnectWifiStep \/ ResetDnsStep
  \/ RemoveCreds \/ Check2 \/ Activate2 \/ Restart \/ Unwind
  \/ Interrupt \/ Relaunch
  \/ ApiConnect \/ DepositOpen \/ DepositFinish

Spec == Init /\ [][Next]_vars

\* ------------------------------------------------------------ event classes
StopApEvents  == {"stop_ap:ok", "stop_ap:fail"}
ResetEvents   == {"reset_dns:ok", "reset_dns:fail"}
ConnectEvents == {"connect_wifi:true", "connect_wifi:false", "connect_wifi:raise"}
ActivateEvents == {"activate:ok", "activate:fail"}
CheckEvents   == {"check:online", "check:offline"}
StartApEvents == {"start_ap:ok", "start_ap:fail"}
Events(S) == {i \in 1..Len(calls) : calls[i] \in S}

\* ------------------------------------------------------------------ claims

\* C1: after a failed start_ap nothing else happens in that session: no web
\* service start, no credential wait, no stop_ap, no credential apply, no
\* DNS reset, no connectivity re-check and no activation.
C1_NothingAfterFailedApStart ==
  \A i \in Events({"start_ap:fail"}) :
    \A j \in (i+1)..Len(calls) :
      calls[j] \notin ({"flask_start", "wait_done"} \cup CheckEvents
                        \cup StopApEvents
                        \cup ConnectEvents \cup ResetEvents \cup ActivateEvents)

\* C2: every reset_dns call of a pass is preceded by the apply (connect_wifi)
\* of the credentials of that pass.
C2_ResetOnlyAfterApply ==
  \A i \in Events(ResetEvents) :
    \E j \in Events(ConnectEvents) : j < i

\* C3: one pass invokes reset() at most max_attempts times, never again
\* after a success, and sleeps only between attempts: at most
\* max_attempts - 1 sleeps.
C3_RetryBound ==
  /\ Cardinality(Events(ResetEvents)) <= max_attempts
  /\ Cardinality(Events({"sleep"})) <= max_attempts - 1
  /\ \A i \in Events({"reset_dns:ok"}) : \A j \in Events(ResetEvents) : j <= i

\* C4: after a failed apply (connect_wifi returned false) neither DNS reset,
\* connectivity verification nor activation is performed in that pass.
C4_FailedApplySkipsRest ==
  \A i \in Events({"connect_wifi:false"}) :
    \A j \in (i+1)..Len(calls) :
      calls[j] \notin (ResetEvents \cup CheckEvents \cup ActivateEvents)

\* C5: no credential wait completes by observing an artifact that was
\* already read (consumed) before.
C5_NoStaleArtifact ==
  pc = "stop_flask" => credsFile \notin consumed

\* C6: no collaborator failure aborts the flow: no exception raised by a
\* collaborator call reaches the top-level handler (AP start failure and
\* activation failure, the two FAILED conditions, raise nothing here).
C6_NoAbort ==
  pc # "aborted" /\ error \in {"none", "KeyboardInterrupt"}

\* C7: at most one session (webview_ready call) is in a non-terminal state.
C7_SingleFlight ==
  frames + (IF pc \in Terminal THEN 0 ELSE 1) <= 1

\* C8: a cancelled run does not end with the Access Point up unless stop_ap
\* was attempted on cancellation.
C8_StopApOnCancel ==
  (pc = "interrupted" /\ apState = "up") =>
     (calls # <<>> /\ calls[Len(calls)] \in StopApEvents)

\* C9: connect_wifi is issued only after the stop-AP command of that pass
\* has been called and has returned.
C9_StopBeforeApply ==
  /\ \A i \in Events(ConnectEvents) : \E j \in Events(StopApEvents) : j < i
  /\ pc = "connect_wifi" => Events(StopApEvents) # {}

C9_Witness ==
  /\ Events(ConnectEvents) # {}
  /\ Events(StopApEvents) # {}

\* C10: the DNS outcome does not change the transition taken: after the
\* retry loop the verification runs, after the verification the flow goes
\* on to reading and applying the credentials and the connectivity check,
\* and the warning is recorded exactly when verify() returned false.
C10_DnsAdvisory ==
  /\ \A i \in 1..Len(calls) :
       /\ calls[i] = "verify:false" => (i < Len(calls) /\ calls[i+1] = "warn")
       /\ calls[i] = "warn" => (i > 1 /\ calls[i-1] = "verify:false")
       /\ (calls[i] \in {"verify:true", "warn"} /\ i < Len(calls))
             => calls[i+1] = "read"
  /\ (calls # <<>> /\ calls[Len(calls)] \in {"verify:true", "warn"})
        => pc \in {"read_creds", "interrupted"}
  /\ (Cardinality(Events({"reset_dns:fail"})) = max_attempts
        /\ Events({"read"}) = {})
        => pc \in {"dns_verify", "read_creds", "interrupted"}

C10_Witness ==
  /\ Cardinality({i \in Events({"reset_dns:fail"}) :
                    \A j \in Events({"read"}) : i < j}) = max_attempts
  /\ Events({"verify:false"}) # {}
  /\ Events({"warn"}) # {}
  /\ pc \in {"activate2", "restart"}

\* C11: every credential pair the submit endpoint accepted has been
\* deposited into the hand-off slot (so that a waiting flow can proceed).
C11_AcceptedIsDeposited ==
  accepted <= nextId - 1

\* C12: the pair the flow reads from the hand-off slot is always a complete
\* pair as submitted, never a partly written one.
C12_ReadsCompletePair ==
  creds >= 0

\* C13: a session that was offline at start and whose Access Point started
\* goes on towards ACTIVATING and SUCCEEDED: while every command of the
\* scenario can be run it is not ended by an exception, and when it ends
\* after a successful activation the AP is stopped and the hand-off file is
\* removed.
C13_ScenarioA ==
  /\ (pc = "aborted" /\ Events({"start_ap:ok"}) # {})
        => error = "FileNotFoundError"
  /\ (pc = "done" /\ Events({"start_ap:ok"}) # {}
        /\ Events({"activate:ok"}) # {})
        => (apState = "down" /\ credsFile = 0)

\* C14: while no credentials file exists the wait does not end: the flow
\* leaves wait_creds only with a file in the slot (or by the operator's
\* interrupt), there is no timeout edge, and stop_ap is not invoked before
\* the wait has ended.
C14_WaitsForCredentials ==
  /\ [](pc = "stop_flask" => credsFile # 0)
  /\ [](\A i \in Events(StopApEvents) :
          \E j \in Events({"wait_done"}) : j < i)
  /\ [][(pc = "wait_creds" /\ credsFile = 0)
          => pc' \in {"wait_creds", "interrupted"}]_vars

C14_Witness ==
  pc = "wait_creds" /\ credsFile = 0 /\ flask = "running"

\* C15: in one session send_activation_request is invoked at most once;
\* after it returned failure (logged by activate_device) the session has
\* ended and performs nothing more.
C15_ActivationFailureTerminal ==
  /\ Cardinality(Events(ActivateEvents)) <= 1
  /\ \A i \in Events({"activate:fail"}) : i = Len(calls) /\ pc = "done"

C15_Witness ==
  Events({"activate:fail"}) # {} /\ pc = "done"

C17_OnlineGoesToActivation ==
  /\ (calls # <<>> /\ calls[1] = "check:online")
        => (/\ \A j \in 2..Len(calls) : calls[j] \in ActivateEvents
            /\ pc \in {"activate1", "done", "interrupted"})
  /\ \A i \in Events(StartApEvents) :
        i > 1 /\ calls[i-1] = "check:offline"
  /\ pc = "start_ap" => (calls # <<>> /\ calls[Len(calls)] = "check:offline")

C17_Witness ==
  calls # <<>> /\ calls[1] = "check:online" /\ pc = "done"

\* C18 as stated: the web service runs from the entry to Access Point mode
\* (right after a successful start_ap) and through the wait, and it is not
\* running once the wait has been left, by success or by interruption.
C18_WebServiceLifetime ==
  /\ (calls # <<>> /\ calls[Len(calls)] = "start_ap:ok") => flask = "running"
  /\ pc = "wait_creds" => flask = "running"
  /\ (Events({"wait_done"}) # {} /\ pc # "stop_flask") => flask # "running"
  /\ pc = "interrupted" => flask # "running"

\* C19 as stated: the probe maps every failure of the ping command to
\* false and never raises, so no session ends by an exception at a
\* connectivity check (the first step of a session, or the step after the
\* credentials file was removed).
C19_ProbeNeverRaises ==
  pc = "aborted" => (calls # <<>> /\ calls[Len(calls)] # "remove")

\* ------------------------------------------- reset_dns, statement by
\* statement (network_manager.py:45-61), for what /etc/resolv.conf holds
\* between its steps
Partial == {"<partial>"}

\* the new content is written over /etc/resolv.conf itself
WriteTargetInPlace == "/etc/resolv.conf"

\* network_manager.py:54  open('/tmp/resolv.conf', 'w')
WriteTarget == "/tmp/resolv.conf"

InitDns ==
  /\ pc = "check1" /\ frames = 0 /\ launches = 1 /\ apState = "down"
  /\ flask = "none" /\ credsFile = 0 /\ nextId = 1 /\ creds = 0
  /\ consumed = {} /\ attempt = 0 /\ calls = <<>> /\ error = "none"
  /\ accepted = 0
  /\ resolv \in ResolvContents
  /\ backup \in ResolvContents
  /\ tmp \in {Absent, Partial, Google}
  /\ dpc = "idle"
  /\ dret = "none"
  /\ rprev = resolv
  /\ orig = resolv
  /\ ScriptIdle
  /\ ActIdle
  /\ UiIdle
  /\ ErrIdle
  /\ CacheIdle

dnsFrame ==
  <<pc, frames, launches, apState, flask, credsFile, nextId, creds, consumed,
    attempt, calls, error, accepted, orig, scriptVars, actVars, uiVars,
    errVars, cacheVars>>

\* reset_dns() is entered
ResetDnsCall ==
  /\ dpc = "idle"
  /\ dpc' = "cp"
  /\ dret' = "none"
  /\ rprev' = resolv
  /\ UNCHANGED <<resolv, backup, tmp, dnsFrame>>

\* network_manager.py:50  sudo cp /etc/resolv.conf /etc/resolv.conf.backup
ResetDnsBackup ==
  /\ dpc = "cp"
  /\ \E o \in CmdOutcomes :
       IF o = "ok" /\ resolv # Absent
       THEN backup' = resolv /\ dpc' = "open" /\ UNCHANGED dret
       ELSE dret' = "false" /\ dpc' = "idle" /\ UNCHANGED backup
  /\ UNCHANGED <<resolv, tmp, rprev, dnsFrame>>

\* network_manager.py:54  open(..., 'w') truncates the file it names
ResetDnsOpen ==
  /\ dpc = "open"
  /\ \E ok \in BOOLEAN :
       IF ok
       THEN /\ dpc' = "write"
            /\ IF WriteTarget = "/tmp/resolv.conf"
               THEN tmp' = Partial /\ UNCHANGED resolv
               ELSE resolv' = Partial /\ UNCHANGED tmp
            /\ UNCHANGED dret
       ELSE dret' = "false" /\ dpc' = "idle" /\ UNCHANGED <<resolv, tmp>>
  /\ UNCHANGED <<backup, rprev, dnsFrame>>

\* network_manager.py:55  f.write(dns_config) and the close of the with
\* block; an IOError leaves the file as far as it was written
ResetDnsWrite ==
  /\ dpc = "write"
  /\ \E ok \in BOOLEAN :
       IF ok
       THEN /\ dpc' = "mv"
            /\ IF WriteTarget = "/tmp/resolv.conf"
               THEN tmp' = Google /\ UNCHANGED resolv
               ELSE resolv' = Google /\ UNCHANGED tmp
            /\ UNCHANGED dret
       ELSE dret' = "false" /\ dpc' = "idle" /\ UNCHANGED <<resolv, tmp>>
  /\ UNCHANGED <<backup, rprev, dnsFrame>>

\* network_manager.py:57-58  sudo mv /tmp/resolv.conf /etc/resolv.conf;
\* the move renames the temporary file over the resolver file
ResetDnsMove ==
  /\ dpc = "mv"
  /\ \E o \in CmdOutcomes :
       IF o = "ok" /\ tmp # Absent
       THEN resolv' = tmp /\ tmp' = Absent /\ dret' = "true"
       ELSE dret' = "false" /\ UNCHANGED <<resolv, tmp>>
  /\ dpc' = "idle"
  /\ UNCHANGED <<backup, rprev, dnsFrame>>

\* network_manager.py:65-71  the case verify_dns_config's except branch is
\* for: the resolver file is deleted from outside after a successful reset;
\* rprev follows the file, which no running call has to preserve
ResolvRemoved ==
  /\ dpc = "idle"
  /\ dret = "true"
  /\ resolv' = Absent
  /\ rprev' = Absent
  /\ dret' = "removed"
  /\ UNCHANGED <<dpc, backup, tmp, dnsFrame>>

NextDns ==
  \/ ResetDnsCall \/ ResetDnsBackup \/ ResetDnsOpen \/ ResetDnsWrite
  \/ ResetDnsMove \/ ResolvRemoved

SpecDns == InitDns /\ [][NextDns]_vars

C21_ResetVerifyRoundTrip ==
  /\ dret = "true" => VerifyDns(resolv)
  /\ dret = "removed" => ~VerifyDns(resolv)

C21_Witness ==
  dret = "removed" /\ resolv = Absent /\ backup # Google

\* C22 as stated: QR generation decides nothing: a session in which
\* start_ap succeeded does not end by an exception before the web service
\* has been started for the credential wait.
C22_QrNotADependency ==
  (Events({"start_ap:ok"}) # {} /\ pc = "aborted")
     => Events({"flask_start"}) # {}

\* -------------------------------- scripts/connect_wifi.py, run on its own
MaxSsid == 32
MinPsk == 8
MaxPsk == 63

\* only the SSID is looked at
ValidateSsidOnly(ssid, pw) == ssid # 0 /\ ~(ssid > MaxSsid)

\* scripts/utils.py:209-213  validate_wifi_credentials, on the lengths
ValidateWifiCredentials(ssid, pw) ==
  IF ssid = 0 \/ ssid > MaxSsid THEN FALSE
  ELSE IF pw # 0 /\ (pw < MinPsk \/ pw > MaxPsk) THEN FALSE
  ELSE TRUE

NetStates ==
  [wpa : {"absent", "A"}, wpaBak : {"absent", "stale"},
   dhcp : {"absent", "D"}, dhcpBak : {"absent", "stale"}]

InitScript ==
  /\ pc = "check1" /\ frames = 0 /\ launches = 1 /\ apState = "down"
  /\ flask = "none" /\ credsFile = 0 /\ nextId = 1 /\ creds = 0
  /\ consumed = {} /\ attempt = 0 /\ calls = <<>> /\ error = "none"
  /\ accepted = 0
  /\ resolv = Google /\ backup = Absent /\ orig = resolv
  /\ dpc = "idle" /\ tmp = Absent /\ dret = "none" /\ rprev = Absent
  /\ spc = "args"
  /\ net \in NetStates
  /\ net0 = net
  /\ sarg \in [ssid : {0, 1, MaxSsid, MaxSsid + 1},
               pw : {0, MinPsk - 1, MinPsk, MaxPsk, MaxPsk + 1}]
  /\ sres = "none"
  /\ ActIdle
  /\ UiIdle
  /\ ErrIdle
  /\ CacheIdle

scriptFrame ==
  <<flowVars, accepted, dnsVars, orig, actVars, uiVars, errVars, cacheVars>>

\* connect_wifi.py:175-186  arguments; a missing SSID ends the run at the
\* outer handler (200-202) before anything is backed up
ScriptArgs ==
  /\ spc = "args"
  /\ IF sarg.ssid = 0
     THEN spc' = "exit1" /\ sres' = "ConfigurationError:ssid"
     ELSE spc' = "backup" /\ UNCHANGED sres
  /\ UNCHANGED <<net, net0, sarg, scriptFrame>>

\* scripts/utils.py:136-156  backup_file: a file that exists is copied over
\* its .backup; a file that does not exist leaves the .backup as it is
BackupFile(file, bak) == IF file # "absent" THEN file ELSE bak

\* connect_wifi.py:73-81, 189  both backups are outside the inner try: an
\* IOError goes to the outer handler, nothing is restored
BackupNetworkConfig ==
  /\ spc = "backup"
  /\ \E ok1 \in BOOLEAN, ok2 \in BOOLEAN :
       IF ~ok1 /\ net.wpa # "absent"
       THEN /\ \E b \in {net.wpaBak, "trunc"} :
                 net' = [net EXCEPT !.wpaBak = b]
            /\ spc' = "exit1" /\ sres' = "IOError"
       ELSE IF ~ok2 /\ net.dhcp # "absent"
       THEN /\ \E b \in {net.dhcpBak, "trunc"} :
                 net' = [net EXCEPT !.wpaBak = BackupFile(net.wpa, net.wpaBak),
                                    !.dhcpBak = b]
            /\ spc' = "exit1" /\ sres' = "IOError"
       ELSE /\ net' = [net EXCEPT
                         !.wpaBak = BackupFile(net.wpa, net.wpaBak),
                         !.dhcpBak = BackupFile(net.dhcp, net.dhcpBak)]
            /\ spc' = "configure" /\ UNCHANGED sres
  /\ UNCHANGED <<net0, sarg, scriptFrame>>

\* connect_wifi.py:95-131, 193  configure_wifi: validation, then the file is
\* opened for writing (truncated) and written; every exception leaves as
\* ConfigurationError
ConfigureWifi ==
  /\ spc = "configure"
  /\ IF ~ValidateWifiCredentials(sarg.ssid, sarg.pw)
     THEN /\ spc' = "restore" /\ sres' = "ConfigurationError:credentials"
          /\ UNCHANGED net
     ELSE \E wr \in {"ok", "noopen", "short"} :
            CASE wr = "ok" ->
                   /\ net' = [net EXCEPT !.wpa = "new"]
                   /\ spc' = "connect" /\ UNCHANGED sres
              [] wr = "noopen" ->
                   /\ spc' = "restore" /\ sres' = "ConfigurationError:io"
                   /\ UNCHANGED net
              [] wr = "short" ->
                   /\ net' = [net EXCEPT !.wpa = "trunc"]
                   /\ spc' = "restore" /\ sres' = "ConfigurationError:io"
  /\ UNCHANGED <<net0, sarg, scriptFrame>>

\* connect_wifi.py:133-169, 194  connect_with_retry returns or raises
\* (service restart failed, command missing, timeout)
ConnectWithRetry ==
  /\ spc = "connect"
  /\ \E ok \in BOOLEAN :
       IF ok THEN spc' = "exit0" /\ UNCHANGED sres
       ELSE spc' = "restore" /\ sres' = "WiFiConnectionError"
  /\ UNCHANGED <<net, net0, sarg, scriptFrame>>

\* scripts/utils.py:158-175  restore_file: only when the .backup exists it
\* is copied over the original and removed
RestoreFile(bak, file) == IF bak # "absent" THEN bak ELSE file

\* connect_wifi.py:83-93, 195-202  restore_network_config, then the
\* exception is raised again and the script exits with status 1
RestoreNetworkConfig ==
  /\ spc = "restore"
  /\ \E ok1 \in BOOLEAN, ok2 \in BOOLEAN :
       LET w == RestoreFile(net.wpaBak, net.wpa)
           d == RestoreFile(net.dhcpBak, net.dhcp)
       IN
       IF ~ok1 /\ net.wpaBak # "absent"
       THEN \E f \in {net.wpa, "trunc"} : net' = [net EXCEPT !.wpa = f]
       ELSE IF ~ok2 /\ net.dhcpBak # "absent"
       THEN \E f \in {net.dhcp, "trunc"} :
              net' = [net EXCEPT !.wpa = w, !.wpaBak = "absent", !.dhcp = f]
       ELSE net' = [wpa |-> w, wpaBak |-> "absent",
                    dhcp |-> d, dhcpBak |-> "absent"]
  /\ spc' = "exit1"
  /\ UNCHANGED <<net0, sarg, sres, scriptFrame>>

NextScript ==
  \/ ScriptArgs \/ BackupNetworkConfig \/ ConfigureWifi \/ ConnectWithRetry
  \/ RestoreNetworkConfig

SpecScript == InitScript /\ [][NextScript]_vars

\* the accepted pairs as the claim gives them
WellFormed(ssid, pw) ==
  ssid >= 1 /\ ssid <= 32 /\ (pw = 0 \/ (pw >= 8 /\ pw <= 63))

\* C23: configure_wifi goes on to write the station configuration exactly
\* for SSID length 1..32 and passphrase empty or 8..63 long; for every
\* other pair it raises ConfigurationError with wpa_supplicant.conf as it
\* was.
C23_OnlyWellFormedWritten ==
  /\ spc = "connect" => WellFormed(sarg.ssid, sarg.pw)
  /\ sres = "ConfigurationError:io" => WellFormed(sarg.ssid, sarg.pw)
  /\ (spc = "restore" /\ ~WellFormed(sarg.ssid, sarg.pw))
       => (sres = "ConfigurationError:credentials" /\ net.wpa = net0.wpa)
  /\ sres = "ConfigurationError:credentials"
       => ~WellFormed(sarg.ssid, sarg.pw)

C23_Witness ==
  /\ spc = "restore" /\ sres = "ConfigurationError:credentials"
  /\ sarg.pw = MinPsk - 1 /\ net.wpa = "A"

\* C24 as stated: when configure_wifi or connect_with_retry failed and the
\* script has exited with status 1, wpa_supplicant.conf and dhcpcd.conf
\* are what they were before the run.
C24_FilesRestoredOnFailure ==
  (spc = "exit1" /\ sres \in {"ConfigurationError:credentials",
                              "ConfigurationError:io",
                              "WiFiConnectionError"})
    => (net.wpa = net0.wpa /\ net.dhcp = net0.dhcp)

\* C25 as stated: in the first run of the flow /etc/resolv.conf.backup,
\* once made, holds the resolver configuration the flow found.
C25_BackupKeepsOriginal ==
  (launches = 1 /\ backup # Absent) => backup = orig

\* ----------------------------- scripts/send_activation.py, run on its own
MaxRetry == 6

\* the loop sleeps after every failed attempt
AnotherAttemptAlways(k, n) == TRUE

\* send_activation.py:232  if attempt < retry_count - 1
AnotherAttempt(k, n) == k < n - 1

\* send_activation.py:233  2 ** attempt
Backoff(k) == 2 ^ k

InitAct ==
  /\ pc = "check1" /\ frames = 0 /\ launches = 1 /\ apState = "down"
  /\ flask = "none" /\ credsFile = 0 /\ nextId = 1 /\ creds = 0
  /\ consumed = {} /\ attempt = 0 /\ calls = <<>> /\ error = "none"
  /\ accepted = 0
  /\ resolv = Google /\ backup = Absent /\ orig = resolv
  /\ dpc = "idle" /\ tmp = Absent /\ dret = "none" /\ rprev = Absent
  /\ ScriptIdle
  /\ apc = "main"
  /\ retry \in -1 .. MaxRetry
  /\ att = 0 /\ sent = 0 /\ slept = <<>> /\ aok = FALSE
  /\ UiIdle
  /\ ErrIdle
  /\ CacheIdle

actFrame ==
  <<flowVars, accepted, dnsVars, orig, scriptVars, uiVars, errVars, cacheVars>>

\* send_activation.py:241-252, 218  arguments, configuration, device id and
\* collect_metrics; each may raise, which ends the run at 254-256
ActMain ==
  /\ apc = "main"
  /\ \E ok \in BOOLEAN : apc' = IF ok THEN "loop" ELSE "exit1"
  /\ UNCHANGED <<retry, att, sent, slept, aok, actFrame>>

\* send_activation.py:220  for attempt in range(retry_count): the function
\* returns when the range is used up
ActLoop ==
  /\ apc = "loop"
  /\ apc' = IF att < retry THEN "send" ELSE "returned"
  /\ UNCHANGED <<retry, att, sent, slept, aok, actFrame>>

\* send_activation.py:221-237  one send_metrics call; it raises NetworkError
\* for every failure
ActSend ==
  /\ apc = "send"
  /\ sent' = sent + 1
  /\ \E ok \in BOOLEAN :
       IF ok THEN apc' = "returned" /\ aok' = TRUE
       ELSE /\ apc' = IF AnotherAttempt(att, retry) THEN "sleep" ELSE "raised"
            /\ UNCHANGED aok
  /\ UNCHANGED <<retry, att, slept, actFrame>>

\* send_activation.py:233  time.sleep(2 ** attempt), then the next attempt
ActSleep ==
  /\ apc = "sleep"
  /\ slept' = Append(slept, Backoff(att))
  /\ att' = att + 1
  /\ apc' = "loop"
  /\ UNCHANGED <<retry, sent, aok, actFrame>>

\* send_activation.py:252-256  main ends; ActivationError gives status 1
ActExit ==
  /\ apc \in {"returned", "raised"}
  /\ apc' = IF apc = "returned" THEN "exit0" ELSE "exit1"
  /\ UNCHANGED <<retry, att, sent, slept, aok, actFrame>>

NextAct == ActMain \/ ActLoop \/ ActSend \/ ActSleep \/ ActExit

SpecAct == InitAct /\ [][NextAct]_vars

\* C26: activate_device calls send_metrics at most retry_count times and not
\* again after a success; the k-th failed attempt (from 0) is followed by a
\* sleep of 2^k seconds when another attempt remains, and the final attempt
\* by none.
C26_BoundedBackoff ==
  /\ sent <= (IF retry > 0 THEN retry ELSE 0)
  /\ aok => apc \in {"returned", "exit0"}
  /\ \A i \in 1 .. Len(slept) : slept[i] = 2 ^ (i - 1)
  /\ Len(slept) <= (IF retry > 1 THEN retry - 1 ELSE 0)
  /\ apc \in {"loop", "send"} => Len(slept) = sent
  /\ apc = "raised" => (sent = retry /\ Len(slept) = retry - 1)

C26_Witness ==
  apc = "raised" /\ retry = 3 /\ slept = <<1, 2>>

\* C27 as stated: activate_device returns normally (and the script exits
\* with status 0) only if a send_metrics call succeeded.
C27_ReturnMeansSent ==
  apc \in {"returned", "exit0"} => aok

\* ------------------------------------------ ui_manager/ui_manager.py
MaxDepth == 3
MaxErrors == 5
max_retries == 3

\* ui_manager.py:40-66  UIManager.STATES and their timeouts
States == {"INIT", "SCANNING", "CONNECTING", "SUCCESS", "ERROR"}

Timeout(s) ==
  CASE s = "INIT"       -> 5
    [] s = "SCANNING"   -> 30
    [] s = "CONNECTING" -> 60
    [] s = "SUCCESS"    -> 10
    [] s = "ERROR"      -> 15

\* ui_manager.py:83-96  UIManager.ERROR_STATES and their actions
ErrorStates == {"NETWORK_ERROR", "TIMEOUT", "OFFLINE"}

RecoveryAction(e) ==
  CASE e = "NETWORK_ERROR" -> "retry_connection"
    [] e = "TIMEOUT"       -> "show_help_qr"
    [] e = "OFFLINE"       -> "activate_offline_mode"

\* ui_manager.py:187-189  an unknown error type is handled as NETWORK_ERROR
ErrorType(e) == IF e \in ErrorStates THEN e ELSE "NETWORK_ERROR"

\* ui_manager.py:385-403  _generate_qr: generate_wifi_qr for wifi data;
\* for any other data self.qr_cache.get_or_generate, which QRCodeCache
\* (server/qr_code.py:32-136) does not have: AttributeError
GenerateQr(type, wifiOk) ==
  IF type = "wifi" THEN (IF wifiOk THEN "path" ELSE "raise") ELSE "raise"

\* ui_manager.py:141-162  update_state(new_state) called at time t: an
\* unknown state changes nothing; otherwise the state and last_update are
\* set and a timer task is created (every timeout is > 0)
\* an unknown state name still refreshes last_update
UpdateStateFromTouch(s, t, pending) ==
  IF s \notin States
  THEN tasks' = pending /\ last_update' = t /\ UNCHANGED <<current_state, gen>>
  ELSE /\ current_state' = s
       /\ last_update' = t
       /\ gen' = gen + 1
       /\ tasks' = pending \cup
            {[at |-> t + Timeout(s), timeout |-> Timeout(s), gen |-> gen + 1]}

\* `pending` are the timer tasks that stay scheduled
UpdateStateFrom(s, t, pending) ==
  IF s \notin States
  THEN tasks' = pending /\ UNCHANGED <<current_state, last_update, gen>>
  ELSE /\ current_state' = s
       /\ last_update' = t
       /\ gen' = gen + 1
       /\ tasks' = pending \cup
            {[at |-> t + Timeout(s), timeout |-> Timeout(s), gen |-> gen + 1]}

UpdateState(s, t) == UpdateStateFrom(s, t, tasks)

InitUiErr ==
  /\ pc = "check1" /\ frames = 0 /\ launches = 1 /\ apState = "down"
  /\ flask = "none" /\ credsFile = 0 /\ nextId = 1 /\ creds = 0
  /\ consumed = {} /\ attempt = 0 /\ calls = <<>> /\ error = "none"
  /\ accepted = 0
  /\ resolv = Google /\ backup = Absent /\ orig = resolv
  /\ dpc = "idle" /\ tmp = Absent /\ dret = "none" /\ rprev = Absent
  /\ ScriptIdle
  /\ ActIdle
  /\ UiIdle
  /\ ErrIdle
  /\ CacheIdle

uiFrame ==
  <<flowVars, accepted, dnsVars, orig, scriptVars, actVars, cacheVars>>

\* ui_manager.py:185-195  handle_error(error_type) is called from outside
\* (initialize, connect_websocket, the websocket reader)
HandleError ==
  /\ epc = "idle"
  /\ retry_count < MaxErrors
  /\ \E e \in ErrorStates \cup {"INIT_ERROR", "QR_ERROR"} :
       etype' = ErrorType(e)
  /\ depth' = 1
  /\ helps' = 0
  /\ epc' = "action"
  /\ UNCHANGED <<retry_count, uiVars, uiFrame>>

\* ui_manager.py:197-200  the recovery action is looked up and called
ErrAction ==
  /\ epc = "action"
  /\ epc' = RecoveryAction(etype)
  /\ UNCHANGED <<depth, retry_count, helps, etype, uiVars, uiFrame>>

\* ui_manager.py:225-231  activate_offline_mode only updates the display
ActivateOfflineMode ==
  /\ epc = "activate_offline_mode"
  /\ epc' = "ret"
  /\ UNCHANGED <<depth, retry_count, helps, etype, uiVars, uiFrame>>

\* ui_manager.py:205-214  retry_connection: at max_retries the help QR,
\* otherwise sleep 2 ** retry_count and update_state('INIT')
RetryConnection ==
  /\ epc = "retry_connection"
  /\ IF retry_count >= max_retries
     THEN /\ epc' = "show_help_qr"
          /\ UNCHANGED uiVars
     ELSE /\ epc' = "ret"
          /\ now' = now + 2 ^ retry_count
          /\ UpdateState("INIT", now')
          /\ UNCHANGED <<ext, fired>>
  /\ UNCHANGED <<depth, retry_count, helps, etype, uiFrame>>

\* ui_manager.py:216-223, 164-183  show_help_qr -> display_qr(help_data):
\* when _generate_qr raises, display_qr calls handle_error('QR_ERROR')
ShowHelpQr ==
  /\ epc = "show_help_qr"
  /\ helps' = helps + 1
  /\ IF GenerateQr("help", TRUE) = "raise"
     THEN /\ depth < MaxDepth
          /\ depth' = depth + 1
          /\ etype' = ErrorType("QR_ERROR")
          /\ epc' = "action"
     ELSE /\ epc' = "ret"
          /\ UNCHANGED <<depth, etype>>
  /\ UNCHANGED <<retry_count, uiVars, uiFrame>>

\* ui_manager.py:202-203  the action has returned: retry_count += 1 and
\* handle_error returns to its caller (display_qr's handler, or outside)
ErrReturn ==
  /\ epc = "ret"
  /\ retry_count' = retry_count + 1
  /\ depth' = depth - 1
  /\ epc' = IF depth = 1 THEN "idle" ELSE "ret"
  /\ UNCHANGED <<helps, etype, uiVars, uiFrame>>

NextUiErr ==
  \/ HandleError \/ ErrAction \/ ActivateOfflineMode \/ RetryConnection
  \/ ShowHelpQr \/ ErrReturn

SpecUiErr == InitUiErr /\ [][NextUiErr]_vars

\* C28 as stated: a handle_error call comes to an end, and with retry_count
\* at max_retries the help QR is shown once: show_help_qr is not entered a
\* second time within one handle_error call from outside, also when showing
\* the QR fails.
C28_HelpQrOnce ==
  helps <= 1

\* ------------------------------------------------ the timer transitions
MaxTime == 130
MaxLate == 1
MaxUpdates == 1
MaxExtTime == 10

\* SUCCESS starts over
NextStateLoop(s) ==
  CASE s = "INIT"       -> "SCANNING"
    [] s = "SCANNING"   -> "CONNECTING"
    [] s = "CONNECTING" -> "SUCCESS"
    [] s = "SUCCESS"    -> "INIT"
    [] s = "ERROR"      -> "INIT"

\* ui_manager.py:423-432  _get_next_state
NextState(s) ==
  CASE s = "INIT"       -> "SCANNING"
    [] s = "SCANNING"   -> "CONNECTING"
    [] s = "CONNECTING" -> "SUCCESS"
    [] s = "SUCCESS"    -> "None"
    [] s = "ERROR"      -> "INIT"

\* the UIManager after one update_state(s) at time 0 (ui_manager.py:123
\* calls update_state('INIT'))
InitUi ==
  /\ pc = "check1" /\ frames = 0 /\ launches = 1 /\ apState = "down"
  /\ flask = "none" /\ credsFile = 0 /\ nextId = 1 /\ creds = 0
  /\ consumed = {} /\ attempt = 0 /\ calls = <<>> /\ error = "none"
  /\ accepted = 0
  /\ resolv = Google /\ backup = Absent /\ orig = resolv
  /\ dpc = "idle" /\ tmp = Absent /\ dret = "none" /\ rprev = Absent
  /\ ScriptIdle
  /\ ActIdle
  /\ ErrIdle
  /\ CacheIdle
  /\ current_state \in {"INIT", "ERROR"}
  /\ last_update = 0 /\ now = 0 /\ gen = 1 /\ ext = 0 /\ fired = NoTimer
  /\ tasks = {[at |-> Timeout(current_state),
               timeout |-> Timeout(current_state), gen |-> 1]}

timerFrame == <<uiFrame, errVars>>

\* a second passes; asyncio.sleep wakes a task at its time or up to
\* MaxLate later
Tick ==
  /\ now < MaxTime
  /\ \A k \in tasks : now < k.at + MaxLate
  /\ now' = now + 1
  /\ UNCHANGED <<current_state, last_update, tasks, gen, ext, fired,
                 timerFrame>>

\* ui_manager.py:413-421  _schedule_transition after its sleep: the
\* transition is made when last_update is at least `timeout` old
TimerRun ==
  /\ \E k \in tasks :
       /\ k.at <= now
       /\ IF now - last_update >= k.timeout /\ NextState(current_state) # "None"
          THEN /\ UpdateStateFrom(NextState(current_state), now, tasks \ {k})
               /\ fired' = [gen |-> k.gen, cur |-> gen,
                            age |-> now - last_update,
                            timeout |-> Timeout(current_state)]
          ELSE /\ tasks' = tasks \ {k}
               /\ UNCHANGED <<current_state, last_update, gen, fired>>
  /\ UNCHANGED <<now, ext, timerFrame>>

\* ui_manager.py:141-162  update_state called from outside the timers, at
\* a later clock reading than the update before it (explored for the first
\* MaxExtTime seconds)
ExtUpdate ==
  /\ ext < MaxUpdates
  /\ now <= MaxExtTime
  /\ now > last_update
  /\ \E s \in States \cup {"BOGUS"} : UpdateState(s, now)
  /\ ext' = ext + 1
  /\ UNCHANGED <<now, fired, timerFrame>>

NextUi == Tick \/ TimerRun \/ ExtUpdate

SpecUi == InitUi /\ [][NextUi]_vars

NextUiAuto == Tick \/ TimerRun

SpecUiAuto ==
  InitUi /\ [][NextUiAuto]_vars /\ WF_vars(Tick) /\ WF_vars(TimerRun)

\* C29 as stated: a timer makes its transition only if no update_state
\* happened since it was scheduled, and the state it leaves has been
\* current for at least that state's own timeout.
C29_NoStaleTimer ==
  /\ fired.gen = fired.cur
  /\ fired.age >= fired.timeout

\* C30: with no update_state from outside every change of state follows
\* INIT -> SCANNING -> CONNECTING -> SUCCESS (and ERROR -> INIT), SUCCESS is
\* reached and never left, and ERROR is followed by INIT.
C30_AutomaticFlow ==
  /\ [][current_state' # current_state
          => current_state' = NextState(current_state)]_vars
  /\ <>[](current_state = "SUCCESS")
  /\ (current_state = "ERROR") ~> (current_state = "INIT")

C30_Witness ==
  current_state = "SUCCESS" /\ tasks = {} /\ gen = 5

\* C31: current_state is always one of the five STATES; an update_state call
\* with any other name (the only call that is not counted in gen) leaves
\* current_state and last_update as they were and adds no timer.
C31_OnlyKnownStates ==
  /\ [](current_state \in States)
  /\ [][(ext' = ext + 1 /\ gen' = gen)
          => (/\ current_state' = current_state
              /\ last_update' = last_update
              /\ tasks' = tasks)]_vars

C31_Witness ==
  ext = 1 /\ gen = 1 /\ now > last_update /\ current_state = "INIT"

\* C32 as stated: retry_count is never greater than max_retries.
C32_RetryCountBounded ==
  retry_count <= max_retries

\* ------------------------------------------ server/qr_code.py QRCodeCache
MaxClock == 48
CACHE_DURATION == 24

\* server/qr_code.py:67-77  _generate_key: one key per data dictionary
Keys == {"k1", "k2"}

\* server/qr_code.py:98, 112  os.path.join(self.cache_dir, f"{key}.png")
CachePath(k) == "qr_cache/" \o k \o ".png"

\* an entry never expires
ExpiredNever(age) == FALSE

\* an entry of exactly CACHE_DURATION has expired already
ExpiredEarly(age) == age >= CACHE_DURATION

\* server/qr_code.py:94  datetime.now() - created > CACHE_DURATION
Expired(age) == age > CACHE_DURATION

\* the index file is left as it was
SaveIndexKeep(old, new) == old

\* server/qr_code.py:62-65  _save_cache_index: index.json := cache_index
SaveIndex(old, new) == new

\* server/qr_code.py:116-119  self.cache_index[key] = {'created': now, ...}
IndexWith(m, k, t) ==
  [x \in DOMAIN m \cup {k} |-> IF x = k THEN t ELSE m[x]]

\* server/qr_code.py:135  self.cache_index.pop(key, None)
IndexWithout(m, k) == [x \in DOMAIN m \ {k} |-> m[x]]

\* server/qr_code.py:79-99, 124-136  get(data) with index m, files fs and
\* index file d at time t: what it returns and what it leaves behind
GetResult(m, k, fs, d, t) ==
  IF k \notin DOMAIN m
  THEN [ret |-> "None", mem |-> m, files |-> fs, disk |-> d]
  ELSE IF Expired(t - m[k])
  THEN [ret |-> "None", mem |-> IndexWithout(m, k), files |-> fs \ {k},
        disk |-> SaveIndex(d, IndexWithout(m, k))]
  ELSE [ret |-> IF k \in fs THEN CachePath(k) ELSE "None",
        mem |-> m, files |-> fs, disk |-> d]

\* what a call found when it began
Call(op, i, k, ret, made) ==
  [op |-> op, inst |-> i, key |-> k, ret |-> ret,
   had |-> k \in DOMAIN mem[i],
   age |-> IF k \in DOMAIN mem[i] THEN cnow - mem[i][k] ELSE 0,
   file |-> k \in files, made |-> made,
   putAge |-> IF k \in DOMAIN putAt THEN cnow - putAt[k] ELSE -1]

InitCache ==
  /\ pc = "check1" /\ frames = 0 /\ launches = 1 /\ apState = "down"
  /\ flask = "none" /\ credsFile = 0 /\ nextId = 1 /\ creds = 0
  /\ consumed = {} /\ attempt = 0 /\ calls = <<>> /\ error = "none"
  /\ accepted = 0
  /\ resolv = Google /\ backup = Absent /\ orig = resolv
  /\ dpc = "idle" /\ tmp = Absent /\ dret = "none" /\ rprev = Absent
  /\ ScriptIdle
  /\ ActIdle
  /\ UiIdle
  /\ ErrIdle
  /\ CacheIdle

cacheFrame ==
  <<flowVars, accepted, dnsVars, orig, scriptVars, actVars, uiVars, errVars>>

\* twelve hours pass
CacheTick ==
  /\ cnow < MaxClock
  /\ cnow' = cnow + 12
  /\ cres' = NoCall
  /\ UNCHANGED <<mem, disk, files, putAt, cacheFrame>>

\* server/qr_code.py:79-99  instance i: get(data)
CacheGet(i) ==
  /\ \E k \in Keys :
       LET g == GetResult(mem[i], k, files, disk, cnow) IN
       /\ mem' = [mem EXCEPT ![i] = g.mem]
       /\ files' = g.files
       /\ disk' = g.disk
       /\ cres' = Call("get", i, k, g.ret, 0)
  /\ UNCHANGED <<cnow, putAt, cacheFrame>>

\* server/qr_code.py:101-122  instance i: put(data, file_path)
CachePut(i) ==
  /\ \E k \in Keys, srcExists \in BOOLEAN :
       /\ IF srcExists
          THEN /\ files' = files \cup {k}
               /\ mem' = [mem EXCEPT ![i] = IndexWith(mem[i], k, cnow)]
               /\ disk' = SaveIndex(disk, IndexWith(mem[i], k, cnow))
               /\ putAt' = IndexWith(putAt, k, cnow)
          ELSE UNCHANGED <<files, mem, disk, putAt>>
       /\ cres' = Call("put", i, k, CachePath(k), 0)
  /\ UNCHANGED <<cnow, cacheFrame>>

\* server/qr_code.py:249-274  generate_wifi_qr(..., cache=instance i): a
\* cached path is returned as it is; otherwise an image is made and put
CacheGenerate(i) ==
  /\ \E k \in Keys :
       LET g == GetResult(mem[i], k, files, disk, cnow) IN
       IF g.ret # "None"
       THEN /\ mem' = [mem EXCEPT ![i] = g.mem]
            /\ files' = g.files
            /\ disk' = g.disk
            /\ cres' = Call("gen", i, k, g.ret, 0)
            /\ UNCHANGED putAt
       ELSE /\ files' = g.files \cup {k}
            /\ mem' = [mem EXCEPT ![i] = IndexWith(g.mem, k, cnow)]
            /\ disk' = SaveIndex(g.disk, IndexWith(g.mem, k, cnow))
            /\ putAt' = IndexWith(putAt, k, cnow)
            /\ cres' = Call("gen", i, k, CachePath(k), 1)
  /\ UNCHANGED <<cnow, cacheFrame>>

\* one instance on its directory
NextCache1 == CacheTick \/ CacheGet(1) \/ CachePut(1) \/ CacheGenerate(1)

SpecCache1 == InitCache /\ [][NextCache1]_vars

\* both instances on the shared directory
NextCache2 ==
  \/ CacheTick
  \/ \E i \in Instances : CacheGet(i) \/ CachePut(i) \/ CacheGenerate(i)

SpecCache2 == InitCache /\ [][NextCache2]_vars

\* C33: get returns a path only for a key that was in the index, not older
\* than 24 hours and with its file present; for an entry older than 24 hours
\* it returns None and has removed the entry and the file and saved the
\* index.
C33_GetOnlyFresh ==
  cres.op = "get" =>
    /\ cres.ret # "None" =>
         (cres.had /\ cres.age <= 24 /\ cres.file
            /\ cres.ret = CachePath(cres.key))
    /\ (cres.had /\ cres.age > 24) =>
         (/\ cres.ret = "None"
          /\ cres.key \notin DOMAIN mem[cres.inst]
          /\ cres.key \notin files
          /\ disk = mem[cres.inst])

C33_Witness ==
  cres.op = "get" /\ cres.had /\ cres.age > 24 /\ cres.file

\* C34: put returns <cache_dir>/<key>.png; a get within 24 hours of a put
\* with an existing file returns that path, and so does generate_wifi_qr,
\* without making a new image.
C34_CacheRoundTrip ==
  /\ cres.op = "put" => cres.ret = CachePath(cres.key)
  /\ (cres.op \in {"get", "gen"} /\ cres.putAge >= 0 /\ cres.putAge <= 24)
       => (cres.ret = CachePath(cres.key) /\ cres.made = 0)

C34_Witness ==
  cres.op = "gen" /\ cres.putAge = 24 /\ cres.made = 0

\* C35: for one instance started on an empty directory every key of the
\* in-memory index has its image file and index.json equals the in-memory
\* index.
C35_IndexMatchesDirectory ==
  /\ \A k \in DOMAIN mem[1] : k \in files
  /\ disk = mem[1]

C35_Witness ==
  cres.op = "get" /\ cres.had /\ cres.age > 24 /\ DOMAIN mem[1] # {}

\* C36 as stated: with two instances on one directory no entry that was
\* put and whose image file is still on disk is missing from index.json.
C36_SharedIndexKeepsEntries ==
  \A k \in DOMAIN putAt : k \in files => k \in DOMAIN disk

====
